---------------------------- MODULE Spec2Model ----------------------------
(***************************************************************************)
(* WooCommerce REST API client (src/index.js, class version 1.0.2, and     *)
(* src/unnamed/part_000, class version 1.0.4): construction, URL building, *)
(* query-string normalisation, authentication selection and the transport  *)
(* configuration handed to axios.                                          *)
(*                                                                         *)
(* A JavaScript string that the code inspects character by character (a    *)
(* URL, a parameter key or value, a port, a credential) is a sequence of   *)
(* one-character strings.  A JavaScript object whose property order the    *)
(* code observes (params, query) is a sequence of entries [k, v] with      *)
(* distinct keys, in insertion order.                                      *)
(***************************************************************************)
EXTENDS Integers, Sequences, FiniteSets

VARIABLES
    build,      \* which of the two source files is loaded
    given,      \* the argument of the last constructor call
    this,       \* the WooCommerceRestApi instance ([exists |-> FALSE] before construction)
    thrown,     \* the exception raised by the last operation, "none" if it returned
    last,       \* the last verb call: its arguments and what was handed to axios
    pending,    \* requests handed to the transport and not yet settled
    canon       \* a direct application of #normalizeQueryString

vars == <<build, given, this, thrown, last, pending, canon>>

(***************************************************************************)
(* Bounds of the model.                                                    *)
(***************************************************************************)
MaxParams == 2      \* entries of a caller's params object
MaxPending == 2     \* requests in flight at once
MaxNonce == 2       \* distinct nonce/timestamp values the signer may draw

Builds == {"index.js", "part_000"}

(***************************************************************************)
(* Characters in ascending UTF-16 code-unit order.                         *)
(***************************************************************************)
CodeOrder ==
    <<" ", "%", "&", "-", ".", "/",
      "0", "1", "2", "3", "4", "5", "6", "7", "8", "9",
      ":", "=", "?",
      "A", "B", "C", "D", "E", "F", "T",
      "[", "]", "_",
      "a", "b", "c", "d", "e", "f", "g", "h", "i", "j", "k", "l", "m",
      "n", "o", "p", "q", "r", "s", "t", "u", "v", "w", "x", "y", "z">>

Code(c) == CHOOSE i \in 1..Len(CodeOrder) : CodeOrder[i] = c

\* a < b as JavaScript compares strings: by code units, a proper prefix first
RECURSIVE StrLess(_, _)
StrLess(a, b) ==
    IF b = <<>> THEN FALSE
    ELSE IF a = <<>> THEN TRUE
    ELSE IF Head(a) = Head(b) THEN StrLess(Tail(a), Tail(b))
    ELSE Code(Head(a)) < Code(Head(b))

StartsWith(s, p) == Len(p) <= Len(s) /\ SubSeq(s, 1, Len(p)) = p

\* String.prototype.indexOf, 1-based; 0 when absent
IndexOf(s, sub) ==
    LET hits == {i \in 1..(Len(s) - Len(sub) + 1) : SubSeq(s, i, i + Len(sub) - 1) = sub}
    IN  IF hits = {} THEN 0 ELSE CHOOSE i \in hits : \A j \in hits : i <= j

\* String.prototype.replace with a string pattern: the first occurrence only
ReplaceFirst(s, pat, rep) ==
    LET i == IndexOf(s, pat)
    IN  IF i = 0 THEN s
        ELSE SubSeq(s, 1, i - 1) \o rep \o SubSeq(s, i + Len(pat), Len(s))

\* String.prototype.replace with a global literal regular expression
RECURSIVE ReplaceAll(_, _, _)
ReplaceAll(s, pat, rep) ==
    IF s = <<>> THEN <<>>
    ELSE IF StartsWith(s, pat)
         THEN rep \o ReplaceAll(SubSeq(s, Len(pat) + 1, Len(s)), pat, rep)
         ELSE <<Head(s)>> \o ReplaceAll(Tail(s), pat, rep)

\* url.split(sep)[0]
BeforeFirst(s, sep) ==
    LET i == IndexOf(s, sep) IN IF i = 0 THEN s ELSE SubSeq(s, 1, i - 1)

\* the text after the first sep, <<>> when sep is absent
AfterFirst(s, sep) ==
    LET i == IndexOf(s, sep) IN IF i = 0 THEN <<>> ELSE SubSeq(s, i + Len(sep), Len(s))

RECURSIVE Split(_, _)
Split(s, sep) ==
    IF IndexOf(s, sep) = 0 THEN <<s>>
    ELSE <<BeforeFirst(s, sep)>> \o Split(AfterFirst(s, sep), sep)


(***************************************************************************)
(* encodeURIComponent and the decoding done by the URL parser.             *)
(***************************************************************************)
Unreserved ==
    {"-", ".", "_"} \cup {"0", "1", "2", "3", "4", "5", "6", "7", "8", "9"}
    \cup {"A", "B", "C", "D", "E", "F", "T"}
    \cup {"a", "b", "c", "d", "e", "f", "g", "h", "i", "j", "k", "l", "m",
          "n", "o", "p", "q", "r", "s", "t", "u", "v", "w", "x", "y", "z"}

Escaped == {" ", "%", "&", "/", ":", "=", "?", "[", "]"}

PercentCode ==
    [c \in Escaped |->
        CASE c = " " -> <<"%", "2", "0">>
          [] c = "%" -> <<"%", "2", "5">>
          [] c = "&" -> <<"%", "2", "6">>
          [] c = "/" -> <<"%", "2", "F">>
          [] c = ":" -> <<"%", "3", "A">>
          [] c = "=" -> <<"%", "3", "D">>
          [] c = "?" -> <<"%", "3", "F">>
          [] c = "[" -> <<"%", "5", "B">>
          [] c = "]" -> <<"%", "5", "D">>]

RECURSIVE encodeURIComponent(_)
encodeURIComponent(s) ==
    IF s = <<>> THEN <<>>
    ELSE (IF Head(s) \in Unreserved THEN <<Head(s)>> ELSE PercentCode[Head(s)])
         \o encodeURIComponent(Tail(s))

\* decodeURIComponent: [ok |-> FALSE] where it throws URIError
RECURSIVE decodeURIComponent(_)
decodeURIComponent(s) ==
    IF s = <<>> THEN [ok |-> TRUE, s |-> <<>>]
    ELSE IF Head(s) = "%"
         THEN LET hit == {c \in Escaped : StartsWith(s, PercentCode[c])}
              IN  IF hit = {} THEN [ok |-> FALSE, s |-> <<>>]
                  ELSE LET rest == decodeURIComponent(SubSeq(s, 4, Len(s)))
                       IN  [ok |-> rest.ok, s |-> <<CHOOSE c \in hit : TRUE>> \o rest.s]
         ELSE LET rest == decodeURIComponent(Tail(s))
              IN  [ok |-> rest.ok, s |-> <<Head(s)>> \o rest.s]

(***************************************************************************)
(* JavaScript values and objects.                                          *)
(***************************************************************************)
Undefined == [kind |-> "undefined"]
Null == [kind |-> "null"]
Str(s) == [kind |-> "string", s |-> s]
Num(n) == [kind |-> "number", n |-> n]
Obj(props) == [kind |-> "object", props |-> props]

\* the || operator's test
Truthy(v) ==
    CASE v.kind \in {"undefined", "null"} -> FALSE
      [] v.kind = "string" -> v.s # <<>>
      [] v.kind = "number" -> v.n # 0
      [] v.kind = "boolean" -> v.b
      [] OTHER -> TRUE

Or(v, dflt) == IF Truthy(v) THEN v ELSE dflt

Digits == <<"0", "1", "2", "3", "4", "5", "6", "7", "8", "9">>

\* String(v) for the scalars of the model
StringOf(v) ==
    CASE v.kind = "string" -> v.s
      [] v.kind = "number" -> <<Digits[v.n + 1]>>

Keys(obj) == [i \in 1..Len(obj) |-> obj[i].k]
KeySet(obj) == {obj[i].k : i \in 1..Len(obj)}
HasKey(obj, k) == k \in KeySet(obj)
Get(obj, k) == obj[CHOOSE i \in 1..Len(obj) : obj[i].k = k].v

\* obj[k] = v: an own property keeps its place, a new one is appended
ObjSet(obj, k, v) ==
    IF HasKey(obj, k)
    THEN [i \in 1..Len(obj) |-> IF obj[i].k = k THEN [k |-> k, v |-> v] ELSE obj[i]]
    ELSE Append(obj, [k |-> k, v |-> v])

\* { ...a, ...b } on objects whose property order matters
RECURSIVE SpreadObj(_, _)
SpreadObj(a, b) ==
    IF b = <<>> THEN a ELSE SpreadObj(ObjSet(a, Head(b).k, Head(b).v), Tail(b))

(***************************************************************************)
(* new Url(url, null, true): the parts of the parser the client reads.     *)
(***************************************************************************)
QsDelims == {"=", "?", "&"}

\* length of the longest prefix of s with no character of stop
RECURSIVE RunLen(_, _)
RunLen(s, stop) ==
    IF s = <<>> \/ Head(s) \in stop THEN 0 ELSE 1 + RunLen(Tail(s), stop)

\* the matches of /([^=?#&]+)=?([^&]*)/g, in order
RECURSIVE QsMatches(_)
QsMatches(s) ==
    IF s = <<>> THEN <<>>
    ELSE IF Head(s) \in QsDelims THEN QsMatches(Tail(s))
    ELSE LET klen == RunLen(s, QsDelims)
             rest1 == SubSeq(s, klen + 1, Len(s))
             rest2 == IF rest1 # <<>> /\ Head(rest1) = "=" THEN Tail(rest1) ELSE rest1
             vlen == RunLen(rest2, {"&"})
         IN  <<[k |-> SubSeq(s, 1, klen), v |-> SubSeq(rest2, 1, vlen)]>>
             \o QsMatches(SubSeq(rest2, vlen + 1, Len(rest2)))

\* each match decoded; an undecodable pair and a repeated key are skipped
RECURSIVE QsFold(_, _)
QsFold(ms, result) ==
    IF ms = <<>> THEN result
    ELSE LET key == decodeURIComponent(Head(ms).k)
             value == decodeURIComponent(Head(ms).v)
         IN  IF ~key.ok \/ ~value.ok \/ HasKey(result, key.s)
             THEN QsFold(Tail(ms), result)
             ELSE QsFold(Tail(ms), Append(result, [k |-> key.s, v |-> Str(value.s)]))

\* new Url(url, null, true).query
UrlQuery(url) ==
    LET i == IndexOf(url, <<"?">>)
    IN  IF i = 0 THEN <<>> ELSE QsFold(QsMatches(SubSeq(url, i, Len(url))), <<>>)

\* new Url(url).hostname: the authority after "//" up to the path, query or
\* port (the URLs of the model carry no userinfo, no fragment and no upper case)
UrlHostname(url) ==
    LET i == IndexOf(url, <<"/", "/">>)
        auth == IF i = 0 THEN <<>> ELSE SubSeq(url, i + 2, Len(url))
    IN  SubSeq(auth, 1, RunLen(auth, {"/", "?", ":"}))

(***************************************************************************)
(* #parseParamsObject(params, query).  Both arguments are returned as the  *)
(* call leaves them: the code writes to query only.                        *)
(***************************************************************************)
RECURSIVE ParseProps(_, _, _)
ParseProps(key, props, query) ==
    IF props = <<>> THEN query
    ELSE LET itemKey == key \o <<"[">> \o Head(props).k \o <<"]">>
         IN  ParseProps(key, Tail(props), ObjSet(query, itemKey, Head(props).v))

RECURSIVE ParseEntries(_, _)
ParseEntries(entries, query) ==
    IF entries = <<>> THEN query
    ELSE LET key == Head(entries).k
             value == Head(entries).v
         IN  IF value.kind = "object"
             THEN ParseEntries(Tail(entries), ParseProps(key, value.props, query))
             ELSE ParseEntries(Tail(entries), ObjSet(query, key, value))

\* the enumerable properties a for-in loop visits (none for null or undefined)
Entries(params) == IF params.kind = "object" THEN params.props ELSE <<>>

\* as parseParamsObject, the flattened entries written to params as well
parseParamsObject_InPlace(params, query) ==
    [params |-> IF params.kind = "object"
                THEN Obj(ParseEntries(Entries(params), Entries(params)))
                ELSE params,
     query |-> ParseEntries(Entries(params), query)]

parseParamsObject(params, query) ==
    [params |-> params, query |-> ParseEntries(Entries(params), query)]

(***************************************************************************)
(* #normalizeQueryString(url, params)                                      *)
(***************************************************************************)
\* Array.prototype.sort with the default comparison
\* as Insert, the key put last whatever its order
Insert_AtEnd(sorted, k) == Append(sorted, k)

RECURSIVE Insert(_, _)
Insert(sorted, k) ==
    IF sorted = <<>> THEN <<k>>
    ELSE IF StrLess(k, Head(sorted)) THEN <<k>> \o sorted
    ELSE <<Head(sorted)>> \o Insert(Tail(sorted), k)

\* as Sort, the keys left in insertion order
Sort_InsertionOrder(values) == values

RECURSIVE Sort(_)
Sort(values) == IF values = <<>> THEN <<>> ELSE Insert(Sort(Tail(values)), Head(values))

EncodeKey(k) ==
    ReplaceAll(ReplaceAll(encodeURIComponent(k), <<"%", "5", "B">>, <<"[">>),
               <<"%", "5", "D">>, <<"]">>)

\* the loop over the sorted keys, queryString being what is built so far
RECURSIVE BuildQueryString(_, _, _)
BuildQueryString(values, query, queryString) ==
    IF values = <<>> THEN queryString
    ELSE BuildQueryString(Tail(values), query,
            (IF Len(queryString) > 0 THEN queryString \o <<"&">> ELSE queryString)
            \o EncodeKey(Head(values))
            \o <<"=">>
            \o encodeURIComponent(StringOf(Get(query, Head(values)))))

\* params = params || { }, the first statement of part_000's method
NormalizeParams(b, params) ==
    IF b = "part_000" THEN Or(params, Obj(<<>>)) ELSE params

\* the tail of the method: the keys sorted, the query string built and joined
EmitQuery(url, params0, parsed) ==
    [threw |-> "none",
     url |-> BeforeFirst(url, <<"?">>) \o <<"?">>
             \o BuildQueryString(Sort(Keys(parsed.query)), parsed.query, <<>>),
     params |-> IF params0.kind = "object" THEN parsed.params ELSE params0]

\* the method after params = params || { }
NormalizeWith(url, params0, params, noQuery) ==
    IF noQuery /\ params.kind # "object"
    THEN [threw |-> "TypeError", url |-> url, params |-> params0]
    ELSE IF noQuery /\ Len(params.props) = 0
    THEN [threw |-> "none", url |-> url, params |-> params0]
    ELSE EmitQuery(url, params0, parseParamsObject(params, UrlQuery(url)))

\* [threw, url, params]: Object.keys(null) and Object.keys(undefined) throw;
\* params is the caller's object as the call leaves it
normalizeQueryString(b, url, params0) ==
    NormalizeWith(url, params0, NormalizeParams(b, params0), IndexOf(url, <<"?">>) = 0)

(***************************************************************************)
(* String literals of the source.                                          *)
(***************************************************************************)
WP_JSON == <<"w", "p", "-", "j", "s", "o", "n">>
WC_V3 == <<"w", "c", "/", "v", "3">>
UTF8 == <<"u", "t", "f", "8">>
CONSUMER_KEY == <<"c", "o", "n", "s", "u", "m", "e", "r", "_", "k", "e", "y">>
CONSUMER_SECRET == <<"c", "o", "n", "s", "u", "m", "e", "r", "_", "s", "e", "c", "r", "e", "t">>
OAUTH_CONSUMER_KEY == <<"o", "a", "u", "t", "h", "_", "c", "o", "n", "s", "u", "m", "e", "r", "_", "k", "e", "y">>
OAUTH_NONCE == <<"o", "a", "u", "t", "h", "_", "n", "o", "n", "c", "e">>
OAUTH_SIGNATURE == <<"o", "a", "u", "t", "h", "_", "s", "i", "g", "n", "a", "t", "u", "r", "e">>
OAUTH_SIGNATURE_METHOD == <<"o", "a", "u", "t", "h", "_", "s", "i", "g", "n", "a", "t", "u", "r", "e", "_", "m", "e", "t", "h", "o", "d">>
OAUTH_TIMESTAMP == <<"o", "a", "u", "t", "h", "_", "t", "i", "m", "e", "s", "t", "a", "m", "p">>
OAUTH_VERSION == <<"o", "a", "u", "t", "h", "_", "v", "e", "r", "s", "i", "o", "n">>

Bool(b) == [kind |-> "boolean", b |-> b]

\* { ...a, ...b } on objects read by property name only
Merge(a, b) ==
    [k \in (DOMAIN a) \cup (DOMAIN b) |-> IF k \in DOMAIN b THEN b[k] ELSE a[k]]

ToLower(c) ==
    CASE c = "A" -> "a" [] c = "B" -> "b" [] c = "C" -> "c" [] c = "D" -> "d"
      [] c = "E" -> "e" [] c = "F" -> "f" [] c = "T" -> "t" [] OTHER -> c

\* /^https/i.test(url)
TestHttps(url) ==
    /\ Len(url) >= 5
    /\ [i \in 1..5 |-> ToLower(url[i])] = <<"h", "t", "t", "p", "s">>

(***************************************************************************)
(* constructor and #setDefaultsOptions / #setDefaultOptions                *)
(***************************************************************************)
NoInstance == [exists |-> FALSE]
NoException == [name |-> "none"]
OptionsException(message) == [name |-> "Options Error", message |-> message]
TypeError == [name |-> "TypeError"]

OptionFields ==
    {"url", "consumerKey", "consumerSecret", "wpAPIPrefix", "version", "encoding",
     "queryStringAuth", "port", "timeout", "axiosConfig"}

\* options = options || { }: a property that was not passed reads undefined
OptionsOrEmpty(arg) ==
    IF Truthy(arg)
    THEN [f \in OptionFields |-> IF f \in DOMAIN arg.fields THEN arg.fields[f] ELSE Undefined]
    ELSE [f \in OptionFields |-> Undefined]

ClassVersion(b) == IF b = "index.js" THEN "1.0.2" ELSE "1.0.4"

setDefaultsOptions(b, opt) ==
    [exists |-> TRUE,
     classVersion |-> ClassVersion(b),
     url |-> opt.url.s,
     wpAPIPrefix |-> Or(opt.wpAPIPrefix, Str(WP_JSON)).s,
     version |-> Or(opt.version, Str(WC_V3)).s,
     isHttps |-> TestHttps(opt.url.s),
     consumerKey |-> opt.consumerKey.s,
     consumerSecret |-> opt.consumerSecret.s,
     encoding |-> Or(opt.encoding, Str(UTF8)).s,
     queryStringAuth |-> Or(opt.queryStringAuth, Bool(FALSE)),
     port |-> Or(opt.port, Str(<<>>)).s,
     timeout |-> opt.timeout,
     axiosConfig |-> Or(opt.axiosConfig, [kind |-> "config", fields |-> <<>>]).fields]

\* as constructor, the secret tested against undefined only
constructor_SecretUndefinedOnly(b, arg) ==
    LET options == OptionsOrEmpty(arg)
    IN  IF ~Truthy(options.url)
        THEN [thrown |-> OptionsException("url is required"), this |-> NoInstance]
        ELSE IF ~Truthy(options.consumerKey)
        THEN [thrown |-> OptionsException("consumerKey is required"), this |-> NoInstance]
        ELSE IF options.consumerSecret = Undefined
        THEN [thrown |-> OptionsException("consumerSecret is required"), this |-> NoInstance]
        ELSE [thrown |-> NoException, this |-> setDefaultsOptions(b, options)]

\* [thrown, this]: the instance is assigned only when the three checks pass
constructor(b, arg) ==
    LET options == OptionsOrEmpty(arg)
    IN  IF ~Truthy(options.url)
        THEN [thrown |-> OptionsException("url is required"), this |-> NoInstance]
        ELSE IF ~Truthy(options.consumerKey)
        THEN [thrown |-> OptionsException("consumerKey is required"), this |-> NoInstance]
        ELSE IF ~Truthy(options.consumerSecret)
        THEN [thrown |-> OptionsException("consumerSecret is required"), this |-> NoInstance]
        ELSE [thrown |-> NoException, this |-> setDefaultsOptions(b, options)]

(***************************************************************************)
(* #getUrl(endpoint, params)                                               *)
(***************************************************************************)
\* url.replace(hostname, hostname + ':' + this.port)
SplicePort(url, hostname, port) ==
    ReplaceFirst(url, hostname, hostname \o <<":">> \o port)

IncludePort(self, url) ==
    IF self.port # <<>> THEN SplicePort(url, UrlHostname(url), self.port) ELSE url

\* the last two statements, url being the URL with its port
ReturnUrl(b, self, url, params) ==
    IF ~self.isHttps
    THEN normalizeQueryString(b, url, params)
    ELSE [threw |-> "none", url |-> url, params |-> params]

BaseUrl(self) ==
    IF self.url[Len(self.url)] = "/" THEN self.url ELSE self.url \o <<"/">>

getUrl(b, self, endpoint, params) ==
    ReturnUrl(b, self,
              IncludePort(self, BaseUrl(self) \o (self.wpAPIPrefix \o <<"/">>)
                                \o self.version \o <<"/">> \o endpoint),
              params)

(***************************************************************************)
(* #getOAuth().authorize({ url, method }): the parameter set of the        *)
(* OAuth 1.0a signer.  The HMAC-SHA256 signature is the tuple of what it   *)
(* is computed from; nonce stands for the nonce and timestamp it draws.    *)
(***************************************************************************)
authorize(self, url, method, nonce) ==
    <<[k |-> OAUTH_CONSUMER_KEY, v |-> Str(self.consumerKey)],
      [k |-> OAUTH_NONCE, v |-> Num(nonce)],
      [k |-> OAUTH_SIGNATURE_METHOD, v |-> [kind |-> "literal", s |-> "HMAC-SHA256"]],
      [k |-> OAUTH_TIMESTAMP, v |-> Num(nonce)],
      [k |-> OAUTH_VERSION, v |-> [kind |-> "literal", s |-> "1.0"]],
      [k |-> OAUTH_SIGNATURE,
       v |-> [kind |-> "hmac", key |-> self.consumerSecret,
              base |-> <<method, url, self.consumerKey, nonce>>]]>>

(***************************************************************************)
(* #request(method, endpoint, data, params)                                *)
(***************************************************************************)
\* the default parameter value params = { } of index.js: for undefined only
DefaultParams(b, params) ==
    IF b = "index.js" /\ params.kind = "undefined" THEN Obj(<<>>) ELSE params

Headers(self, data) ==
    LET base == [h \in {"User-Agent", "Accept"} |->
                    IF h = "Accept" THEN <<"application/json">>
                    ELSE <<"WooCommerce REST API - JS Client/", self.classVersion>>]
    IN  IF Truthy(data)
        THEN Merge(base, [h \in {"Content-Type"} |-> <<"application/json;charset=utf-8">>])
        ELSE base

\* as AuthOptions, the credentials spread after the caller's params
AuthOptions_CredentialsLast(self, url, method, params, nonce) ==
    IF self.isHttps
    THEN IF Truthy(self.queryStringAuth)
         THEN [add |-> [params |-> SpreadObj(
                            Entries(params),
                            <<[k |-> CONSUMER_KEY, v |-> Str(self.consumerKey)],
                              [k |-> CONSUMER_SECRET, v |-> Str(self.consumerSecret)]>>)],
               signerCalls |-> 0]
         ELSE [add |-> [auth |-> [username |-> self.consumerKey,
                                  password |-> self.consumerSecret],
                        params |-> SpreadObj(<<>>, Entries(params))],
               signerCalls |-> 0]
    ELSE [add |-> [params |-> authorize(self, url, method, nonce)], signerCalls |-> 1]

\* as AuthOptions, the credentials put in the query on both HTTPS branches
AuthOptions_AlwaysInQuery(self, url, method, params, nonce) ==
    IF self.isHttps
    THEN [add |-> Merge(
                    IF Truthy(self.queryStringAuth) THEN <<>>
                    ELSE [auth |-> [username |-> self.consumerKey,
                                    password |-> self.consumerSecret]],
                    [params |-> SpreadObj(
                        <<[k |-> CONSUMER_KEY, v |-> Str(self.consumerKey)],
                          [k |-> CONSUMER_SECRET, v |-> Str(self.consumerSecret)]>>,
                        Entries(params))]),
          signerCalls |-> 0]
    ELSE [add |-> [params |-> authorize(self, url, method, nonce)], signerCalls |-> 1]

\* as AuthOptions, the signature computed over the URL without its query string
AuthOptions_SignsBasePath(self, url, method, params, nonce) ==
    IF self.isHttps
    THEN IF Truthy(self.queryStringAuth)
         THEN [add |-> [params |-> SpreadObj(
                            <<[k |-> CONSUMER_KEY, v |-> Str(self.consumerKey)],
                              [k |-> CONSUMER_SECRET, v |-> Str(self.consumerSecret)]>>,
                            Entries(params))],
               signerCalls |-> 0]
         ELSE [add |-> [auth |-> [username |-> self.consumerKey,
                                  password |-> self.consumerSecret],
                        params |-> SpreadObj(<<>>, Entries(params))],
               signerCalls |-> 0]
    ELSE [add |-> [params |-> authorize(self, BeforeFirst(url, <<"?">>), method, nonce)],
          signerCalls |-> 1]

\* the auth branch: what it adds to options, and the signer invocations it makes
AuthOptions(self, url, method, params, nonce) ==
    IF self.isHttps
    THEN IF Truthy(self.queryStringAuth)
         THEN [add |-> [params |-> SpreadObj(
                            <<[k |-> CONSUMER_KEY, v |-> Str(self.consumerKey)],
                              [k |-> CONSUMER_SECRET, v |-> Str(self.consumerSecret)]>>,
                            Entries(params))],
               signerCalls |-> 0]
         ELSE [add |-> [auth |-> [username |-> self.consumerKey,
                                  password |-> self.consumerSecret],
                        params |-> SpreadObj(<<>>, Entries(params))],
               signerCalls |-> 0]
    ELSE [add |-> [params |-> authorize(self, url, method, nonce)], signerCalls |-> 1]

\* the last merge: the transport overrides against the computed options
MergeConfig(b, options, axiosConfig) ==
    IF b = "index.js" THEN Merge(options, axiosConfig) ELSE Merge(axiosConfig, options)

\* options as the auth branch and the body leave it
BuildOptions(self, method, data, url, add) ==
    LET options ==
            Merge([url |-> url,
                   method |-> method,
                   responseEncoding |-> self.encoding,
                   timeout |-> self.timeout,
                   responseType |-> "json",
                   headers |-> Headers(self, data)],
                  add)
    IN  IF Truthy(data)
        THEN Merge(options, [data |-> [kind |-> "json", of |-> data]])
        ELSE options

\* the method from the auth branch on, got being what #getUrl returned
Dispatch(b, self, method, data, params0, got, auth) ==
    [threw |-> "none", dispatched |-> TRUE,
     config |-> MergeConfig(b, BuildOptions(self, method, data, got.url, auth.add),
                            self.axiosConfig),
     params |-> IF params0.kind = "object" THEN got.params ELSE params0,
     signerCalls |-> auth.signerCalls]

RequestWith(b, self, method, data, params0, params, got, nonce) ==
    IF got.threw # "none"
    THEN [threw |-> got.threw, dispatched |-> FALSE, config |-> <<>>,
          params |-> params0, signerCalls |-> 0]
    ELSE Dispatch(b, self, method, data, params0, got,
                  AuthOptions(self, got.url, method, params, nonce))

\* [threw, dispatched, config, params, signerCalls]: config is what axios receives,
\* params the caller's params object as the call leaves it
request(b, self, method, endpoint, data, params0, nonce) ==
    RequestWith(b, self, method, data, params0, DefaultParams(b, params0),
                getUrl(b, self, endpoint, DefaultParams(b, params0)), nonce)

(***************************************************************************)
(* Inputs.                                                                 *)
(***************************************************************************)
KeyA == <<"a">>
KeyB == <<"b">>
KeyAB == <<"a", "[", "b", "]">>

UrlHttpSlash == <<"h", "t", "t", "p", ":", "/", "/", "a", ".", "i", "o", "/">>
UrlHttpTp == <<"h", "t", "t", "p", ":", "/", "/", "t", "p">>
UrlHttps == <<"h", "t", "t", "p", "s", ":", "/", "/", "s", ".", "i", "o">>
UrlOther == <<"h", "t", "t", "p", ":", "/", "/", "o", ".", "i", "o", "/", "x">>

EndpointPlain == <<"p">>
EndpointQuery == <<"p", "?", "b", "=", "1">>

E(k, v) == [k |-> k, v |-> v]

Body == Obj(<<E(<<"n">>, Num(1))>>)

CallParams ==
    {p \in {Undefined, Null, Obj(<<>>),
            Obj(<<E(KeyA, Num(5))>>),
            Obj(<<E(CONSUMER_KEY, Str(<<"x">>))>>),
            Obj(<<E(KeyB, Num(2)), E(KeyA, Num(1))>>),
            Obj(<<E(KeyA, Obj(<<E(KeyB, Num(1))>>))>>)} :
        Len(Entries(p)) <= MaxParams}

\* what get is called with
Intents ==
    {[endpoint |-> EndpointPlain, params |-> p] : p \in CallParams}
    \cup {[endpoint |-> EndpointQuery, params |-> Obj(<<E(KeyB, Num(2)), E(KeyA, Num(1))>>)]}

\* what the other verbs are called with
FewIntents ==
    {i \in Intents :
        i.params \in {Undefined, Obj(<<E(KeyA, Num(5))>>),
                      Obj(<<E(CONSUMER_KEY, Str(<<"x">>))>>)}}

Config(fields) == [kind |-> "config", fields |-> fields]

ConfigTimeout == Config([timeout |-> Num(9)])
ConfigParams == Config([params |-> <<E(KeyA, Num(7))>>])
ConfigAuth == Config([auth |-> [username |-> <<"u">>, password |-> <<"w">>]])
ConfigUrl == Config([url |-> UrlOther])

Options(url, key, secret, qsa, port, axiosConfig) ==
    [kind |-> "options",
     fields |-> [url |-> url, consumerKey |-> key, consumerSecret |-> secret,
                 queryStringAuth |-> qsa, port |-> port, timeout |-> Num(5),
                 axiosConfig |-> axiosConfig]]

GoodKey == Str(<<"c", "k">>)
GoodSecret == Str(<<"c", "s">>)
Port81 == Str(<<"8", "1">>)

CtorArgs ==
    {Undefined}
    \* a required option missing or empty
    \cup {Options(u, k, s, Undefined, Undefined, Undefined) :
            u \in {Undefined, Str(<<>>), Str(UrlHttps)},
            k \in {Undefined, Str(<<>>), GoodKey},
            s \in {Undefined, Str(<<>>), GoodSecret}}
    \* HTTPS, with and without query-string authentication
    \cup {Options(Str(UrlHttps), GoodKey, GoodSecret, q, Undefined, ac) :
            q \in {Undefined, Bool(TRUE)},
            ac \in {Undefined, ConfigTimeout, ConfigParams, ConfigAuth}}
    \* plain HTTP
    \cup {Options(Str(UrlHttpSlash), GoodKey, GoodSecret, Undefined, Undefined, ac) :
            ac \in {Undefined, ConfigTimeout, ConfigUrl}}
    \* an explicit port
    \cup {Options(Str(u), GoodKey, GoodSecret, Undefined, pt, Undefined) :
            u \in {UrlHttpSlash, UrlHttpTp, UrlHttps}, pt \in {Undefined, Port81}}

(***************************************************************************)
(* The client: construction, the five verbs, the transport settling.       *)
(***************************************************************************)
NoCall == [called |-> FALSE]
NoCanon == [applied |-> FALSE]
NotGiven == [kind |-> "none"]

Init ==
    /\ build \in Builds
    /\ given = NotGiven
    /\ this = NoInstance
    /\ thrown = NoException
    /\ last = NoCall
    /\ pending = 0
    /\ canon = NoCanon

Constructed(arg, r) ==
    /\ given' = arg
    /\ this' = r.this
    /\ thrown' = r.thrown
    /\ UNCHANGED <<build, last, pending, canon>>

\* new WooCommerceRestApi(options)
Construct ==
    /\ ~this.exists
    /\ \E arg \in CtorArgs : Constructed(arg, constructor(build, arg))

Called(method, endpoint, data, params, nonce, r) ==
    /\ last' = [called |-> TRUE, method |-> method, endpoint |-> endpoint,
                data |-> data, params |-> params, nonce |-> nonce,
                dispatched |-> r.dispatched, config |-> r.config,
                paramsAfter |-> r.params, signerCalls |-> r.signerCalls]
    /\ thrown' = IF r.threw = "none" THEN NoException ELSE TypeError
    /\ pending' = IF r.dispatched THEN pending + 1 ELSE pending
    /\ UNCHANGED <<build, given, this, canon>>

\* a verb method: the whole of #request up to the hand-over to axios
Call(method, endpoint, data, params, nonce) ==
    /\ this.exists
    /\ pending < MaxPending
    /\ Called(method, endpoint, data, params, nonce,
              request(build, this, method, endpoint, data, params, nonce))

\* the signer draws a nonce and a timestamp only on the OAuth branch
Nonces == IF this.exists /\ ~this.isHttps THEN 1..MaxNonce ELSE {0}

Delete ==
    \E i \in FewIntents, n \in Nonces : Call("delete", i.endpoint, Null, i.params, n)

GetVerb ==
    \E i \in Intents, n \in Nonces : Call("get", i.endpoint, Null, i.params, n)

OptionsVerb ==
    \E i \in FewIntents, n \in Nonces : Call("options", i.endpoint, Null, i.params, n)

Post ==
    \E i \in FewIntents, n \in Nonces, d \in {Undefined, Body} :
        Call("post", i.endpoint, d, i.params, n)

Put ==
    \E i \in FewIntents, n \in Nonces : Call("put", i.endpoint, Body, i.params, n)

\* the promise axios returned settles (fulfilled or rejected)
Settle ==
    /\ pending > 0
    /\ pending' = pending - 1
    /\ UNCHANGED <<build, given, this, thrown, last, canon>>

Next == Construct \/ Delete \/ GetVerb \/ OptionsVerb \/ Post \/ Put \/ Settle

Spec == Init /\ [][Next]_vars

(***************************************************************************)
(* The canonicalizer on its own: #normalizeQueryString applied to a URL    *)
(* and a params value as a verb passes it on.                              *)
(***************************************************************************)
CanonUrlPlain == <<"h", "t", "t", "p", ":", "/", "/", "a", "/", "p">>
CanonUrlQuery == <<"h", "t", "t", "p", ":", "/", "/", "a", "/", "p", "?", "b", "=", "9">>
CanonUrlEncoded == <<"h", "t", "t", "p", ":", "/", "/", "a", "/", "p", "?", "c", "=", "3", "&", "a", "%", "5", "B", "b", "%", "5", "D", "=", "7">>

CanonUrls == {CanonUrlPlain, CanonUrlQuery, CanonUrlEncoded}

CanonKeys == {KeyA, KeyB, KeyAB}

NestedOne == Obj(<<E(KeyB, Num(2))>>)
NestedTwo == Obj(<<E(KeyB, Num(3)), E(KeyA, Num(4))>>)

CanonValues == {Num(1), Str(<<"x", " ", "[">>), Obj(<<>>), NestedOne, NestedTwo}

\* the property lists of at most n entries, keys distinct
RECURSIVE ParamSeqs(_)
ParamSeqs(n) ==
    IF n = 0 THEN {<<>>}
    ELSE LET shorter == ParamSeqs(n - 1)
         IN  shorter \cup
             {Append(x[1], E(x[2], x[3])) :
                x \in {y \in shorter \X CanonKeys \X CanonValues :
                          Len(y[1]) = n - 1 /\ y[2] \notin KeySet(y[1])}}

CanonParams == {Undefined, Null} \cup {Obj(s) : s \in ParamSeqs(MaxParams)}

InitCanon ==
    /\ build \in Builds
    /\ given = NotGiven
    /\ this = NoInstance
    /\ thrown = NoException
    /\ last = NoCall
    /\ pending = 0
    /\ canon \in {[applied |-> FALSE, url |-> u, params |-> p] :
                    u \in CanonUrls, p \in CanonParams}

Canonicalized(r) ==
    /\ canon' = [applied |-> TRUE, url |-> canon.url, params |-> canon.params,
                 result |-> r]
    /\ UNCHANGED <<build, given, this, thrown, last, pending>>

Canonicalize ==
    /\ ~canon.applied
    /\ Canonicalized(normalizeQueryString(build, canon.url,
                                          DefaultParams(build, canon.params)))

NextCanon == Canonicalize

SpecCanon == InitCanon /\ [][NextCanon]_vars

(***************************************************************************)
(* Vocabulary of the properties.                                           *)
(***************************************************************************)
Required == {"url", "consumerKey", "consumerSecret"}

\* an option that was not passed, or passed empty
MissingOption(v) == v = Undefined \/ v = Str(<<>>)

GivenOptions ==
    IF given.kind = "options"
    THEN [f \in OptionFields |->
            IF f \in DOMAIN given.fields THEN given.fields[f] ELSE Undefined]
    ELSE [f \in OptionFields |-> Undefined]

Dispatched == this.exists /\ last.called /\ last.dispatched

Overrides == DOMAIN this.axiosConfig

CallerEntries == IF last.params.kind = "object" THEN last.params.props ELSE <<>>

\* the flattened input as a set of <<key, value>>: a scalar under its own key,
\* each entry of a nested mapping under parent[child]
FlatPairs(params) ==
    LET es == IF params.kind = "object" THEN params.props ELSE <<>>
    IN  {<<es[i].k, es[i].v>> : i \in {j \in 1..Len(es) : es[j].v.kind # "object"}}
        \cup UNION {
            {<<es[i].k \o <<"[">> \o es[i].v.props[c].k \o <<"]">>, es[i].v.props[c].v>> :
                c \in 1..Len(es[i].v.props)} :
            i \in {j \in 1..Len(es) : es[j].v.kind = "object"}}

FlatKeys(params) == {p[1] : p \in FlatPairs(params)}

\* the number of scalar entries, nested ones counted one by one
RECURSIVE FlatCount(_)
FlatCount(es) ==
    IF es = <<>> THEN 0
    ELSE (IF Head(es).v.kind = "object" THEN Len(Head(es).v.props) ELSE 1)
         + FlatCount(Tail(es))

\* the strings of a finite set in ascending code-unit order
RECURSIVE Ascending(_)
Ascending(S) ==
    IF S = {} THEN <<>>
    ELSE LET least == CHOOSE x \in S : \A y \in S \ {x} : StrLess(x, y)
         IN  <<least>> \o Ascending(S \ {least})

\* out is basePath ? k1=v1&...&kn=vn over the merge of url's query with params
IsCanonical(out, url, params) ==
    LET existing == UrlQuery(url)
        keys == Ascending(KeySet(existing) \cup FlatKeys(params))
        text == AfterFirst(out, <<"?">>)
        pairs == IF text = <<>> THEN <<>> ELSE Split(text, <<"&">>)
        values(k) ==
            IF k \in FlatKeys(params)
            THEN {p[2] : p \in {q \in FlatPairs(params) : q[1] = k}}
            ELSE {Get(existing, k)}
    IN  /\ IndexOf(out, <<"?">>) # 0
        /\ BeforeFirst(out, <<"?">>) = BeforeFirst(url, <<"?">>)
        /\ Len(pairs) = Len(keys)
        /\ \A i \in 1..Len(keys) :
            /\ BeforeFirst(pairs[i], <<"=">>) = EncodeKey(keys[i])
            /\ AfterFirst(pairs[i], <<"=">>)
                \in {encodeURIComponent(StringOf(v)) : v \in values(keys[i])}
        /\ \A i, j \in 1..Len(keys) : i < j => StrLess(keys[i], keys[j])

PermsOf(s) ==
    {[i \in 1..Len(s) |-> s[f[i]]] :
        f \in {g \in [1..Len(s) -> 1..Len(s)] :
                 \A i, j \in 1..Len(s) : i # j => g[i] # g[j]}}

RECURSIVE NestedVariants(_)
NestedVariants(es) ==
    IF es = <<>> THEN {<<>>}
    ELSE LET vs == IF Head(es).v.kind = "object"
                   THEN {Obj(q) : q \in PermsOf(Head(es).v.props)}
                   ELSE {Head(es).v}
         IN  {<<E(Head(es).k, v)>> \o t : v \in vs, t \in NestedVariants(Tail(es))}

\* the mappings holding the entries of params in any insertion order
Reorderings(params) ==
    {Obj(es) : es \in UNION {NestedVariants(q) : q \in PermsOf(params.props)}}

\* url with ":" port put right after its hostname component
SpliceAfterHost(url, port) ==
    LET hostEnd == IndexOf(url, <<"/", "/">>) + 1 + Len(UrlHostname(url))
    IN  SubSeq(url, 1, hostEnd) \o <<":">> \o port \o SubSeq(url, hostEnd + 1, Len(url))

StripSlash(url) ==
    IF url # <<>> /\ url[Len(url)] = "/" THEN SubSeq(url, 1, Len(url) - 1) ELSE url

\* base/prefix/version/ with one "/" after the base
Stem(self) ==
    StripSlash(self.url) \o <<"/">> \o self.wpAPIPrefix \o <<"/">> \o self.version \o <<"/">>

ExampleUrl == <<"h", "t", "t", "p", ":", "/", "/", "a", ".", "i", "o", "/", "w", "p", "-", "j", "s", "o", "n", "/", "w", "c", "/", "v", "3", "/", "p", "?", "a", "=", "5">>

(***************************************************************************)
(* C1.  A constructor call with url, consumerKey or consumerSecret missing *)
(* or empty throws an OptionsException naming a missing option and leaves  *)
(* no client, so nothing is ever handed to the transport; with the three   *)
(* present the client exists; no verb call raises an OptionsException.     *)
(***************************************************************************)
C1_ConstructionValidated ==
    /\ given.kind # "none" =>
        LET missing == {f \in Required : MissingOption(GivenOptions[f])}
        IN  /\ missing # {} =>
                /\ ~this.exists
                /\ thrown.name = "Options Error"
                /\ \E f \in missing : thrown.message = f \o " is required"
            /\ missing = {} => this.exists
    /\ ~this.exists => last = NoCall /\ pending = 0
    /\ this.exists => thrown.name # "Options Error"

C1_Witness ==
    /\ ~this.exists
    /\ given.kind = "options"
    /\ ~MissingOption(GivenOptions["url"])
    /\ ~MissingOption(GivenOptions["consumerKey"])
    /\ thrown = OptionsException("consumerSecret is required")

(***************************************************************************)
(* C2.  For every key the transport overrides (axiosConfig) set, the       *)
(* configuration handed to the transport holds the override's value.       *)
(***************************************************************************)
C2_OverridesWin ==
    Dispatched =>
        \A k \in Overrides :
            k \in DOMAIN last.config /\ last.config[k] = this.axiosConfig[k]

(***************************************************************************)
(* C3.  HTTPS with queryStringAuth.  As stated: whatever the caller's      *)
(* params, consumer_key and consumer_secret are dispatched holding the     *)
(* configured key and secret, together with the caller's params, and no    *)
(* Basic-auth credentials.                                                 *)
(***************************************************************************)
QueryStringAuthCall == Dispatched /\ this.isHttps /\ Truthy(this.queryStringAuth)

C3_AsStated ==
    QueryStringAuthCall =>
        /\ "params" \in DOMAIN last.config
        /\ HasKey(last.config.params, CONSUMER_KEY)
        /\ HasKey(last.config.params, CONSUMER_SECRET)
        /\ Get(last.config.params, CONSUMER_KEY) = Str(this.consumerKey)
        /\ Get(last.config.params, CONSUMER_SECRET) = Str(this.consumerSecret)
        /\ KeySet(CallerEntries) \subseteq KeySet(last.config.params)
        /\ "auth" \notin DOMAIN last.config

(***************************************************************************)
(* C3 as amended.  When the overrides set neither params nor auth, the     *)
(* dispatched query parameters are consumer_key and consumer_secret merged *)
(* with the caller's params, the caller's value winning on a key they      *)
(* share, and the request carries no Basic-auth credentials.               *)
(***************************************************************************)
C3_QueryStringAuth ==
    QueryStringAuthCall /\ Overrides \cap {"params", "auth"} = {} =>
        LET ps == last.config.params
        IN  /\ KeySet(ps) = {CONSUMER_KEY, CONSUMER_SECRET} \cup KeySet(CallerEntries)
            /\ Len(ps) = Cardinality(KeySet(ps))
            /\ \A k \in KeySet(ps) :
                Get(ps, k) =
                    IF HasKey(CallerEntries, k) THEN Get(CallerEntries, k)
                    ELSE IF k = CONSUMER_KEY THEN Str(this.consumerKey)
                    ELSE Str(this.consumerSecret)
            /\ "auth" \notin DOMAIN last.config

C3_Witness ==
    /\ QueryStringAuthCall
    /\ Overrides = {}
    /\ HasKey(CallerEntries, CONSUMER_KEY)
    /\ Get(last.config.params, CONSUMER_SECRET) = Str(this.consumerSecret)

(***************************************************************************)
(* C4.  HTTPS without queryStringAuth.  As stated: whatever the caller's   *)
(* params, the request carries the configured key and secret as Basic-auth *)
(* credentials, its query parameters are the caller's params, and it has   *)
(* no consumer_key query parameter.                                        *)
(***************************************************************************)
BasicAuthCall == Dispatched /\ this.isHttps /\ ~Truthy(this.queryStringAuth)

ConfiguredCredentials ==
    [username |-> this.consumerKey, password |-> this.consumerSecret]

C4_AsStated ==
    BasicAuthCall =>
        /\ "auth" \in DOMAIN last.config
        /\ last.config.auth = ConfiguredCredentials
        /\ last.config.params = CallerEntries
        /\ ~HasKey(last.config.params, CONSUMER_KEY)

(***************************************************************************)
(* C4 as amended.  When the overrides set neither params nor auth, the     *)
(* request carries the configured key and secret as Basic-auth             *)
(* credentials and its query parameters are exactly the caller's params,   *)
(* so a consumer_key parameter only if the caller supplied one.            *)
(***************************************************************************)
C4_BasicAuth ==
    BasicAuthCall /\ Overrides \cap {"params", "auth"} = {} =>
        /\ "auth" \in DOMAIN last.config
        /\ last.config.auth = ConfiguredCredentials
        /\ last.config.params = CallerEntries
        /\ HasKey(last.config.params, CONSUMER_KEY) => HasKey(CallerEntries, CONSUMER_KEY)

C4_Witness ==
    /\ BasicAuthCall
    /\ Overrides = {}
    /\ last.config.auth = ConfiguredCredentials
    /\ Len(CallerEntries) = 2

(***************************************************************************)
(* C5.  On a client whose base URL is not HTTPS and whose overrides set    *)
(* neither url nor params nor auth, the dispatched query parameters are    *)
(* the signer's parameter set for the call's verb and for the very URL     *)
(* that is dispatched; the signer runs once per call; the request has no   *)
(* Basic-auth credentials and no consumer_secret parameter; that URL is    *)
(* base/prefix/version/endpoint (a configured port spliced in as #getUrl   *)
(* splices it) with the caller's params canonicalized into its query       *)
(* string.                                                                 *)
(***************************************************************************)
OAuthCall ==
    Dispatched /\ ~this.isHttps /\ Overrides \cap {"url", "params", "auth"} = {}

Canonicalization == canon.applied /\ canon.result.threw = "none"

C6_CanonicalForm ==
    Canonicalization /\ canon.result.url # canon.url =>
        IsCanonical(canon.result.url, canon.url, canon.params)

C6_Witness ==
    /\ Canonicalization
    /\ canon.url = CanonUrlEncoded
    /\ canon.params = Obj(<<E(KeyB, Num(1)), E(KeyA, NestedTwo)>>)
    /\ canon.result.url # canon.url

(***************************************************************************)
(* C7.  For a URL with no query string and a mapping that contributes no   *)
(* parameter (empty, absent, or holding only empty nested mappings),       *)
(* canonicalization returns the URL unchanged.                             *)
(***************************************************************************)
C7_NothingToAdd ==
    (/\ canon.applied
     /\ IndexOf(canon.url, <<"?">>) = 0
     /\ canon.params # Null
     /\ FlatPairs(canon.params) = {})
        => canon.result.threw = "none" /\ canon.result.url = canon.url

(***************************************************************************)
(* C8.  With a port configured, the built URL is the URL built without a   *)
(* port with ":" port inserted right after the hostname component and      *)
(* nowhere else, and one "/" separates base and prefix.                    *)
(***************************************************************************)
C8_PortAfterHostname ==
    Dispatched /\ this.port # <<>> /\ "url" \notin Overrides =>
        LET plain == getUrl(build, [this EXCEPT !.port = <<>>], last.endpoint,
                            DefaultParams(build, last.params)).url
        IN  /\ StartsWith(plain, Stem(this))
            /\ last.config.url = SpliceAfterHost(plain, this.port)

(***************************************************************************)
(* C9.  As stated: for every URL and any two mappings holding the same     *)
(* entries in different insertion orders, the canonicalized URLs are       *)
(* identical.                                                              *)
(***************************************************************************)
C9_AsStated ==
    Canonicalization /\ canon.params.kind = "object" =>
        \A q \in Reorderings(canon.params) :
            normalizeQueryString(build, canon.url, q).url = canon.result.url

(***************************************************************************)
(* C9 as amended.  The same, for mappings in which no two entries flatten  *)
(* to the same key (no top-level key equals parent[child] of a nested      *)
(* entry).                                                                 *)
(***************************************************************************)
FlatKeysDistinct(params) ==
    Cardinality(FlatKeys(params)) = FlatCount(params.props)

C9_OrderIndependent ==
    (/\ Canonicalization
     /\ canon.params.kind = "object"
     /\ FlatKeysDistinct(canon.params))
        => \A q \in Reorderings(canon.params) :
            normalizeQueryString(build, canon.url, q).url = canon.result.url

C9_Witness ==
    /\ Canonicalization
    /\ canon.url = CanonUrlPlain
    /\ canon.params = Obj(<<E(KeyB, Num(1)), E(KeyA, NestedTwo)>>)
    /\ canon.result.url # canon.url

(***************************************************************************)
(* C10.  After any sequence of verb calls every field of the client still  *)
(* holds the value set at construction from the options given, a call      *)
(* leaves the caller's params object as it was, and what a call hands to   *)
(* the transport is what the same call gives on the client as constructed. *)
(***************************************************************************)
AsConstructed ==
    /\ this.url = GivenOptions["url"].s
    /\ this.consumerKey = GivenOptions["consumerKey"].s
    /\ this.consumerSecret = GivenOptions["consumerSecret"].s
    /\ this.wpAPIPrefix = WP_JSON
    /\ this.version = WC_V3
    /\ this.encoding = UTF8
    /\ this.isHttps = (SubSeq(this.url, 1, 5) = <<"h", "t", "t", "p", "s">>)
    /\ this.queryStringAuth.b = (GivenOptions["queryStringAuth"] = Bool(TRUE))
    /\ this.port = (IF GivenOptions["port"] = Undefined THEN <<>> ELSE GivenOptions["port"].s)
    /\ this.timeout = GivenOptions["timeout"]
    /\ this.axiosConfig = (IF GivenOptions["axiosConfig"] = Undefined THEN <<>>
                           ELSE GivenOptions["axiosConfig"].fields)

C10_NothingPersists ==
    /\ this.exists => AsConstructed
    /\ this.exists /\ last.called =>
        /\ last.paramsAfter = last.params
        /\ last.dispatched =>
            last.config = request(build, constructor(build, given).this, last.method,
                                  last.endpoint, last.data, last.params, last.nonce).config

C10_Witness ==
    /\ Dispatched
    /\ pending = 2
    /\ ~this.isHttps
    /\ last.params = Obj(<<E(KeyA, Obj(<<E(KeyB, Num(1))>>))>>)

=============================================================================
